---- MODULE Spec2Model ----
(***************************************************************************)
(* CIFF.parse_ciff_file (src/input-validation/ciff.py): the sequential     *)
(* decode / validate state machine of the CIFF image container.            *)
(*                                                                         *)
(* A run of the model is one Python process that calls parse_ciff_file     *)
(* twice, each call on its own file.  Under Spec the second call starts    *)
(* when the first has returned, and its file is the file of the first      *)
(* call, a prefix of it, or that file with one byte appended.  Under       *)
(* ConcSpec the two calls decode the same bytes side by side, their steps  *)
(* interleaved.  Bytes are integers 0..255, a str is the sequence of its   *)
(* code points, a Python int is a sign and a little-endian base-256        *)
(* magnitude (Python ints are unbounded), and a Python list is a cell of   *)
(* the heap, so that two objects can (or cannot) share one list.           *)
(***************************************************************************)
EXTENDS Integers, Sequences, FiniteSets, TLC

\* ---------------------------------------------------------------- bounds
\* Length of the caption + tag region of the files that are enumerated.
MaxHeaderTail == 3
\* Largest width the enumerated files of height 1 declare.
MaxWidth == 1

\* ------------------------------------------------------ program constants
NL == 10
NUL == 0
MinHeaderSize == 38
MagicLen == 4
FieldLen == 8
PixelLen == 3

Min(a, b) == IF a < b THEN a ELSE b

\* ------------------------------------------------- Python int (unbounded)
\* A magnitude is a sequence of base-256 digits, least significant first,
\* without a most significant zero; the magnitude of 0 is << >>.
\* The recursions are functions, so that each argument is a value when the
\* body is evaluated.
Norm[d \in Seq(Nat)] ==
  IF d = << >> THEN << >>
  ELSE IF d[Len(d)] = 0 THEN Norm[SubSeq(d, 1, Len(d) - 1)]
  ELSE d

NatDigits[n \in Nat] == IF n = 0 THEN << >> ELSE <<n % 256>> \o NatDigits[n \div 256]

AddMag[a \in Seq(Nat), b \in Seq(Nat), carry \in Nat] ==
  IF a = << >> /\ b = << >>
  THEN IF carry = 0 THEN << >> ELSE <<carry>>
  ELSE LET x == IF a = << >> THEN 0 ELSE Head(a)
           y == IF b = << >> THEN 0 ELSE Head(b)
           s == x + y + carry
       IN  <<s % 256>> \o AddMag[IF a = << >> THEN << >> ELSE Tail(a),
                                 IF b = << >> THEN << >> ELSE Tail(b),
                                 s \div 256]

\* a - b for magnitudes with a >= b
SubMag[a \in Seq(Nat), b \in Seq(Nat), borrow \in Nat] ==
  IF a = << >> THEN << >>
  ELSE LET y == IF b = << >> THEN 0 ELSE Head(b)
           s == Head(a) - y - borrow
       IN  <<s % 256>> \o SubMag[Tail(a),
                                 IF b = << >> THEN << >> ELSE Tail(b),
                                 IF s < 0 THEN 1 ELSE 0]

ScaleMag[a \in Seq(Nat), k \in Nat, carry \in Nat] ==
  IF a = << >>
  THEN IF carry = 0 THEN << >> ELSE <<carry>>
  ELSE LET s == Head(a) * k + carry
       IN  <<s % 256>> \o ScaleMag[Tail(a), k, s \div 256]

MulMag[a \in Seq(Nat), b \in Seq(Nat)] ==
  IF a = << >> \/ b = << >> THEN << >>
  ELSE Norm[AddMag[ScaleMag[b, Head(a), 0], <<0>> \o MulMag[Tail(a), b], 0]]

\* a < b for magnitudes: the shorter one, or the smaller digit at the most
\* significant place where they differ
LessMag(a, b) ==
  IF Len(a) # Len(b) THEN Len(a) < Len(b)
  ELSE \E i \in 1..Len(a) :
         a[i] < b[i] /\ \A j \in (i + 1)..Len(a) : a[j] = b[j]

PyInt(n) == [neg |-> n < 0, mag |-> NatDigits[IF n < 0 THEN 0 - n ELSE n]]

MkInt(neg, mag) == [neg |-> neg /\ mag # << >>, mag |-> mag]

\* a < b
IntLess(a, b) ==
  IF a.neg # b.neg THEN a.neg
  ELSE IF a.neg THEN LessMag(b.mag, a.mag)
  ELSE LessMag(a.mag, b.mag)

\* a product that keeps its low 64 bits
IntMulWrapped(a, b) ==
  LET m == MulMag[a.mag, b.mag]
  IN  MkInt(a.neg # b.neg, Norm[SubSeq(m, 1, Min(Len(m), FieldLen))])

\* a * b
IntMul(a, b) == MkInt(a.neg # b.neg, MulMag[a.mag, b.mag])

\* a + b
IntAdd(a, b) ==
  IF a.neg = b.neg THEN MkInt(a.neg, Norm[AddMag[a.mag, b.mag, 0]])
  ELSE IF LessMag(a.mag, b.mag) THEN MkInt(b.neg, Norm[SubMag[b.mag, a.mag, 0]])
  ELSE MkInt(a.neg, Norm[SubMag[a.mag, b.mag, 0]])

\* 2**64 - 1
MaxUInt64 == [neg |-> FALSE, mag |-> [i \in 1..FieldLen |-> 255]]

\* struct.unpack("q", b)[0]: the 8 bytes as a signed 64-bit integer in the
\* byte order of the machine, which is little-endian on the builds modelled.
unpack_q(b) ==
  IF b[FieldLen] >= 128
  THEN MkInt(TRUE, Norm[SubSeq(AddMag[[i \in 1..FieldLen |-> 255 - b[i]], <<1>>, 0],
                               1, FieldLen)])
  ELSE MkInt(FALSE, Norm[b])

\* struct.unpack("BBB", c): three unsigned bytes as a tuple
unpack_BBB(c) == <<c[1], c[2], c[3]>>

\* a decoding that has a character for every byte
IsAsciiAnyByte(b) == TRUE

\* bytes.decode('ascii') succeeds exactly when every byte is below 128, and
\* then the str has the bytes as its code points.
IsAscii(b) == \A i \in 1..Len(b) : b[i] < 128

\* --------------------------------------------------- exception classes
Base(cls) ==
  CASE cls = "FileNotFoundError"  -> "OSError"
    [] cls = "OSError"            -> "Exception"
    [] cls = "UnicodeDecodeError" -> "UnicodeError"
    [] cls = "UnicodeError"       -> "ValueError"
    [] cls = "ValueError"         -> "Exception"
    [] cls = "Exception"          -> "BaseException"
    [] OTHER                      -> "object"

RECURSIVE IsSubclass(_, _)
IsSubclass(cls, of) ==
  IF cls = of THEN TRUE
  ELSE IF cls = "object" THEN FALSE
  ELSE IsSubclass(Base(cls), of)

\* an except clause that names the class of the decoding errors only
HandledClassNarrow == "ValueError"

\* the class named by the except clause of parse_ciff_file
HandledClass == "Exception"


\* ------------------------------------------------------------ the files
\* "CIFF"
CIFF_MAGIC == <<67, 73, 70, 70>>

\* a natural number as the 8 bytes struct.pack("q", n) writes
Pack(n) == [i \in 1..FieldLen |->
              IF i <= Len(NatDigits[n]) THEN NatDigits[n][i] ELSE 0]

\* 8-byte patterns that are no small natural number
PatMinusOne == [i \in 1..FieldLen |-> 255]
PatTopBit   == [i \in 1..FieldLen |-> IF i = FieldLen THEN 128 ELSE 0]
PatTwoTo32  == [i \in 1..FieldLen |-> IF i = 5 THEN 1 ELSE 0]
PatBigEndian(n) == [i \in 1..FieldLen |-> Pack(n)[FieldLen + 1 - i]]

\* 3 * n pixel bytes, all different, some of them above 127
PixelData(n) == [i \in 1..(PixelLen * n) |-> (120 + 9 * i) % 256]

FileBytes(magic, hs, cs, w, h, tail, content) ==
  magic \o hs \o cs \o w \o h \o tail \o content

\* The bytes that follow the five fixed fields, up to the declared end of the
\* header: every sequence of 1..MaxHeaderTail bytes over a newline, a null, an
\* ASCII letter and a byte that is not ASCII.
TailAlphabet == {NL, NUL, 65, 200}
Tails == UNION {[1..n -> TailAlphabet] : n \in 1..MaxHeaderTail}

\* Files whose sizes agree with their layout: header_size is the length of the
\* header, the height is 1, the width is 0 or MaxWidth, content_size is
\* 3 * width, and the content is that long.
LayoutFiles ==
  {FileBytes(CIFF_MAGIC, Pack(36 + Len(t)), Pack(PixelLen * w), Pack(w), Pack(1),
             t, PixelData(w)) :
     t \in Tails, w \in {0, MaxWidth}}

\* Files whose declared header_size is one less than the longest headers.
SkewedFiles ==
  {FileBytes(CIFF_MAGIC, Pack(35 + Len(t)), Pack(0), Pack(0), Pack(0), t, << >>) :
     t \in [1..MaxHeaderTail -> TailAlphabet]}

\* Files with one field that is out of range or inconsistent; each has the
\* caption "A", the tag "A\0" and six bytes of content.
OddTail == <<65, NL, 65, NUL>>
OddFiles ==
  {FileBytes(f[1], f[2], f[3], f[4], f[5], OddTail, PixelData(2)) : f \in {
     <<CIFF_MAGIC, Pack(40), Pack(6), Pack(2), Pack(1)>>,
     <<<<67, 73, 70, 71>>, Pack(40), Pack(6), Pack(2), Pack(1)>>,
     <<<<67, 73, 70, 200>>, Pack(40), Pack(6), Pack(2), Pack(1)>>,
     <<<<99, 105, 102, 102>>, Pack(40), Pack(6), Pack(2), Pack(1)>>,
     <<CIFF_MAGIC, PatMinusOne, Pack(6), Pack(2), Pack(1)>>,
     <<CIFF_MAGIC, PatBigEndian(40), Pack(6), Pack(2), Pack(1)>>,
     <<CIFF_MAGIC, Pack(40), PatMinusOne, Pack(2), Pack(1)>>,
     <<CIFF_MAGIC, Pack(40), PatTopBit, Pack(2), Pack(1)>>,
     <<CIFF_MAGIC, Pack(40), Pack(5), Pack(2), Pack(1)>>,
     <<CIFF_MAGIC, Pack(40), Pack(7), Pack(2), Pack(1)>>,
     <<CIFF_MAGIC, Pack(40), Pack(6), PatMinusOne, Pack(1)>>,
     <<CIFF_MAGIC, Pack(40), Pack(6), Pack(2), PatTopBit>>,
     <<CIFF_MAGIC, Pack(40), Pack(6), PatMinusOne, PatMinusOne>>,
     <<CIFF_MAGIC, Pack(40), Pack(0), PatTwoTo32, PatTwoTo32>>,
     <<CIFF_MAGIC, Pack(40), PatTwoTo32, PatTwoTo32, Pack(1)>>,
     <<CIFF_MAGIC, Pack(40), Pack(6), Pack(1), Pack(2)>>,
     <<CIFF_MAGIC, Pack(40), Pack(0), Pack(2), Pack(0)>> }}

\* Files with content_size 0 and no content that are as long as their
\* header_size says: one with width and height 2**32, whose product times 3
\* is a multiple of 2**64; one with width 0 and height -1; one with
\* header_size 37, the caption "" and no tag.
EdgeFiles ==
  {FileBytes(CIFF_MAGIC, Pack(40), Pack(0), PatTwoTo32, PatTwoTo32, OddTail, << >>),
   FileBytes(CIFF_MAGIC, Pack(40), Pack(0), Pack(0), PatMinusOne, OddTail, << >>),
   FileBytes(CIFF_MAGIC, Pack(37), Pack(0), Pack(0), Pack(0), <<NL>>, << >>)}

Corpus == LayoutFiles \cup SkewedFiles \cup OddFiles \cup EdgeFiles

\* The files that are decoded twice side by side: the longest layout files
\* and the files with an odd field.
ConcCorpus ==
  {f \in LayoutFiles :
     Len(f) = 36 + MaxHeaderTail + PixelLen * MaxWidth} \cup OddFiles

\* bytes that may follow the last byte of a file
ExtraBytes == {NUL, 65}

Prefixes(f) == {SubSeq(f, 1, k) : k \in 0..Len(f)}
Extensions(f) == {Append(f, b) : b \in ExtraBytes}

IsProperPrefix(g, f) == Len(g) < Len(f) /\ g = SubSeq(f, 1, Len(g))
IsOneByteExtension(g, f) == Len(g) = Len(f) + 1 /\ f = SubSeq(g, 1, Len(f))

\* --------------------------------------------------------------- state
Calls == {1, 2}

VARIABLES
  files,     \* files[i]: the bytes of the file that call i is given
  openable,  \* openable[i]: open(file_path, "rb") of call i succeeds
  frame,     \* frame[i]: the position and the locals of call i
  heap,      \* the list objects of the process
  results    \* results[i]: what the caller got back from call i

vars == <<files, openable, frame, heap, results>>

\* The fields of a frame:
\*   pc          where the call stands in parse_ciff_file
\*   handle      ciff_file: "none", "open" or "closed"
\*   closes      how often ciff_file was closed
\*   pos         the read position of ciff_file
\*   bytes_read  the local bytes_read
\*   new_ciff    the local new_ciff, the CIFF object under construction
\*   caption     the local caption
\*   tags        the local tags: the heap cell of the list
\*   tag         the local tag
\*   exc         the exception being raised, or "none"

\* new_ciff while no object is bound to it
NoObject ==
  [magic |-> << >>, header_size |-> PyInt(0), content_size |-> PyInt(0),
   width |-> PyInt(0), height |-> PyInt(0), caption |-> << >>,
   tags |-> 0, pixels |-> 0, is_valid |-> FALSE]

\* the frame of a call that has not started or has returned
NoFrame(where) ==
  [pc |-> where, handle |-> "none", closes |-> 0, pos |-> 0, bytes_read |-> 0,
   new_ciff |-> NoObject, caption |-> << >>, tags |-> 0, tag |-> << >>,
   exc |-> "none"]

\* A constructor whose default pixels_list is one list object, made once and
\* given to every object that is constructed without a pixels_list.
CIFF__init__SharedList(h) ==
  [obj |-> [magic |-> CIFF_MAGIC, header_size |-> PyInt(0),
            content_size |-> PyInt(0), width |-> PyInt(0), height |-> PyInt(0),
            caption |-> << >>, tags |-> Len(h) + 1,
            pixels |-> IF Len(h) >= 2 THEN 2 ELSE Len(h) + 2, is_valid |-> TRUE],
   heap |-> IF Len(h) >= 2 THEN h \o << << >> >> ELSE h \o << << >>, << >> >>]

\* CIFF.__init__ with the default arguments: the result is the new object and
\* the heap with its two fresh lists.
CIFF__init__(h) ==
  [obj |-> [magic |-> CIFF_MAGIC, header_size |-> PyInt(0),
            content_size |-> PyInt(0), width |-> PyInt(0), height |-> PyInt(0),
            caption |-> << >>, tags |-> Len(h) + 1, pixels |-> Len(h) + 2,
            is_valid |-> TRUE],
   heap |-> h \o << << >>, << >> >>]

\* the field values of an object as its reader sees them
View(obj, h) ==
  [magic |-> obj.magic, header_size |-> obj.header_size,
   content_size |-> obj.content_size, width |-> obj.width,
   height |-> obj.height, caption |-> obj.caption,
   tags |-> h[obj.tags], pixels |-> h[obj.pixels], is_valid |-> obj.is_valid]

NoResult == View(NoObject, [a \in {0} |-> << >>])

Init ==
  /\ files = [i \in Calls |-> << >>]
  /\ openable = [i \in Calls |-> FALSE]
  /\ frame = [i \in Calls |-> NoFrame("call")]
  /\ heap = << >>
  /\ results = [i \in Calls |-> NoResult]

\* ciff_file.read(n) at position p of the bytes src: the next n bytes, or as
\* many as are left
Read(src, p, n) == SubSeq(src, p + 1, Min(p + n, Len(src)))

\* an exception that is noted while the with block goes on
RaiseAndGoOn(fr, cls) == [fr EXCEPT !.exc = cls]

\* raise cls inside the with block
Raise(fr, cls) == [fr EXCEPT !.exc = cls, !.pc = "with_exit"]

\* ---------------------------------------------- the checks of the decoder
\* the magic is stored but not compared
MagicMismatchIgnored(magic) == FALSE

\* line 198
MagicMismatch(magic) == magic # CIFF_MAGIC

\* the least header size is rejected too
HeaderSizeOutOfRangeInclusive(v) ==
  IntLess(v, PyInt(MinHeaderSize + 1)) \/ IntLess(MaxUInt64, v)

\* line 208
HeaderSizeOutOfRange(v) == IntLess(v, PyInt(MinHeaderSize)) \/ IntLess(MaxUInt64, v)

\* a size field of any value is taken
FieldOutOfRangeIgnored(v) == FALSE

\* lines 217, 226, 235
FieldOutOfRange(v) == IntLess(v, PyInt(0)) \/ IntLess(MaxUInt64, v)

\* the sizes are not compared
DimensionCheckSkipped(obj) == FALSE

\* only a content_size below the product is a mismatch
DimensionMismatchTooSmallOnly(obj) ==
  IntLess(obj.content_size, IntMul(IntMul(obj.width, obj.height), PyInt(3)))

\* line 238
DimensionMismatch(obj) ==
  obj.content_size # IntMul(IntMul(obj.width, obj.height), PyInt(3))

\* a newline is a tag byte like any other
NewlineInTagAllowed(char) == FALSE

\* line 266
NewlineInTag(char) == char = NL

\* line 260: bytes_read != new_ciff.header_size
TagLoopCond(n, obj) == PyInt(n) # obj.header_size

\* the last byte of the header is not looked at
HeaderEndsInsideTagIgnored(n, obj, char) == FALSE

\* line 272
HeaderEndsInsideTag(n, obj, char) == PyInt(n) = obj.header_size /\ char # NUL

\* the pixel loop stops one pixel early
PixelLoopCondOffByOne(n, obj) ==
  IntLess(PyInt(n + 3), IntAdd(obj.header_size, obj.content_size))

\* line 282: bytes_read < new_ciff.header_size + new_ciff.content_size
PixelLoopCond(n, obj) == IntLess(PyInt(n), IntAdd(obj.header_size, obj.content_size))

\* the probed byte is not looked at
ExtraDataIgnored(extra) == FALSE

\* line 292
ExtraData(extra) == extra # << >>

\* an except clause that only swallows the exception
ExceptHandlerPass(obj) == obj

\* an except clause that declares the object valid
ExceptHandlerRevalidate(obj) == [obj EXCEPT !.is_valid = TRUE]

\* line 296
ExceptHandler(obj) == [obj EXCEPT !.is_valid = FALSE]

\* a short read that makes the caption loop try again
CaptionShortReadRetry(fr) == fr

\* lines 251-252: the short read inside the caption loop
CaptionShortRead(fr) == Raise(fr, "Exception")

\* --------------------------------------------- the steps of one call
\* Each step maps the frame of the call (and, where the step touches a list,
\* the heap) to the frame after the step.

\* line 191: open(file_path, "rb"); a failure is raised before the with block
OpenStep(fr, ok) ==
  IF ok THEN [fr EXCEPT !.handle = "open", !.pc = "magic"]
  ELSE [fr EXCEPT !.exc = "FileNotFoundError", !.pc = "except"]

\* lines 193-200
MagicStep(fr, src) ==
  LET magic == Read(src, fr.pos, MagicLen)
      rd == [fr EXCEPT !.pos = @ + Len(magic)]
      ok == [rd EXCEPT !.bytes_read = @ + 4]
  IN  IF Len(magic) # MagicLen THEN Raise(rd, "Exception")
      ELSE IF ~IsAscii(magic) THEN Raise(ok, "UnicodeDecodeError")
      ELSE IF MagicMismatch(magic)
      THEN Raise([ok EXCEPT !.new_ciff.magic = magic, !.new_ciff.is_valid = FALSE],
                 "Exception")
      ELSE [ok EXCEPT !.new_ciff.magic = magic, !.pc = "header_size"]

\* lines 203-209
HeaderSizeStep(fr, src) ==
  LET h_size == Read(src, fr.pos, FieldLen)
      rd == [fr EXCEPT !.pos = @ + Len(h_size)]
  IN  IF Len(h_size) # FieldLen THEN Raise(rd, "Exception")
      ELSE LET ok == [rd EXCEPT !.bytes_read = @ + 8,
                                !.new_ciff.header_size = unpack_q(h_size)]
           IN  IF HeaderSizeOutOfRange(ok.new_ciff.header_size)
               THEN Raise(ok, "Exception")
               ELSE [ok EXCEPT !.pc = "content_size"]

\* lines 212-218
ContentSizeStep(fr, src) ==
  LET c_size == Read(src, fr.pos, FieldLen)
      rd == [fr EXCEPT !.pos = @ + Len(c_size)]
  IN  IF Len(c_size) # FieldLen THEN Raise(rd, "Exception")
      ELSE LET ok == [rd EXCEPT !.bytes_read = @ + 8,
                                !.new_ciff.content_size = unpack_q(c_size)]
           IN  IF FieldOutOfRange(ok.new_ciff.content_size)
               THEN Raise(ok, "Exception")
               ELSE [ok EXCEPT !.pc = "width"]

\* lines 221-227
WidthStep(fr, src) ==
  LET width == Read(src, fr.pos, FieldLen)
      rd == [fr EXCEPT !.pos = @ + Len(width)]
  IN  IF Len(width) # FieldLen THEN Raise(rd, "Exception")
      ELSE LET ok == [rd EXCEPT !.bytes_read = @ + 8,
                                !.new_ciff.width = unpack_q(width)]
           IN  IF FieldOutOfRange(ok.new_ciff.width)
               THEN Raise(ok, "Exception")
               ELSE [ok EXCEPT !.pc = "height"]

\* lines 230-236
HeightStep(fr, src) ==
  LET height == Read(src, fr.pos, FieldLen)
      rd == [fr EXCEPT !.pos = @ + Len(height)]
  IN  IF Len(height) # FieldLen THEN Raise(rd, "Exception")
      ELSE LET ok == [rd EXCEPT !.bytes_read = @ + 8,
                                !.new_ciff.height = unpack_q(height)]
           IN  IF FieldOutOfRange(ok.new_ciff.height)
               THEN Raise(ok, "Exception")
               ELSE [ok EXCEPT !.pc = "dimension_check"]

\* lines 238-242
DimensionCheckStep(fr) ==
  IF DimensionMismatch(fr.new_ciff) THEN Raise(fr, "Exception")
  ELSE [fr EXCEPT !.caption = << >>, !.pc = "caption"]

\* lines 243-259: one byte of the caption (the read before the loop, or the
\* read of one iteration); the newline ends the loop, stores the caption and
\* creates the locals of the tag loop, the list tags in the cell after the
\* last cell of the heap h.
CaptionStep(fr, src, h) ==
  LET c == Read(src, fr.pos, 1)
      rd == [fr EXCEPT !.pos = @ + Len(c)]
      ok == [rd EXCEPT !.bytes_read = @ + 1]
  IN  IF Len(c) # 1 THEN CaptionShortRead(rd)
      ELSE IF ~IsAscii(c) THEN Raise(ok, "UnicodeDecodeError")
      ELSE IF c[1] # NL THEN [ok EXCEPT !.caption = Append(@, c[1])]
      ELSE [ok EXCEPT !.new_ciff.caption = ok.caption, !.tags = Len(h) + 1,
                      !.tag = << >>, !.pc = "tags"]

CaptionEnds(fr, src) ==
  LET c == Read(src, fr.pos, 1) IN Len(c) = 1 /\ c[1] = NL

\* lines 260-273: one iteration of the tag loop
TagsStep(fr, src) ==
  LET c == Read(src, fr.pos, 1)
      rd == [fr EXCEPT !.pos = @ + Len(c)]
      ok == [rd EXCEPT !.bytes_read = @ + 1]
  IN  IF Len(c) # 1 THEN Raise(rd, "Exception")
      ELSE IF ~IsAscii(c) THEN Raise(ok, "UnicodeDecodeError")
      ELSE IF NewlineInTag(c[1]) THEN Raise(ok, "Exception")
      ELSE LET app == [ok EXCEPT !.tag = IF c[1] = NUL THEN << >>
                                         ELSE Append(@, c[1])]
           IN  IF HeaderEndsInsideTag(ok.bytes_read, ok.new_ciff, c[1])
               THEN Raise(app, "Exception")
               ELSE app

\* line 270: the tag that the iteration appends to the list tags, if any
TagClosed(fr, src) ==
  LET c == Read(src, fr.pos, 1) IN
    IF Len(c) = 1 /\ c[1] = NUL THEN << Append(fr.tag, c[1]) >> ELSE << >>

\* lines 275-279: the tags are re-verified and stored
TagsDoneStep(fr, h) ==
  IF \E i \in 1..Len(h[fr.tags]) : h[fr.tags][i][Len(h[fr.tags][i])] # NUL
  THEN Raise(fr, "Exception")
  ELSE [fr EXCEPT !.new_ciff.tags = fr.tags, !.pc = "pixels"]

\* lines 282-288: one iteration of the pixel loop
PixelsStep(fr, src) ==
  LET c == Read(src, fr.pos, PixelLen)
      rd == [fr EXCEPT !.pos = @ + Len(c)]
  IN  IF Len(c) # PixelLen THEN Raise(rd, "Exception")
      ELSE [rd EXCEPT !.bytes_read = @ + 3]

\* line 288: the pixel that the iteration appends to new_ciff.pixels, if any
PixelRead(fr, src) ==
  LET c == Read(src, fr.pos, PixelLen) IN
    IF Len(c) = PixelLen THEN << unpack_BBB(c) >> ELSE << >>

\* lines 291-293: the trailing byte is probed
TrailingCheckStep(fr, src) ==
  LET extra == Read(src, fr.pos, 1)
      rd == [fr EXCEPT !.pos = @ + Len(extra)]
  IN  IF ExtraData(extra) THEN Raise(rd, "Exception")
      ELSE [rd EXCEPT !.pc = "with_exit"]

\* a with block that closes the file on the normal exit only
WithExitStepLeak(fr) ==
  [fr EXCEPT !.handle = IF fr.exc = "none" THEN "closed" ELSE @,
             !.closes = IF fr.exc = "none" THEN @ + 1 ELSE @,
             !.pc = IF fr.exc = "none" THEN "return" ELSE "except"]

\* line 191: leaving the with block, normally or by an exception, closes the
\* file; an exception goes on to the except clause.
WithExitStep(fr) ==
  [fr EXCEPT !.handle = "closed", !.closes = @ + 1,
             !.pc = IF fr.exc = "none" THEN "return" ELSE "except"]

\* lines 295-296: an exception of the handled class is caught; any other
\* leaves parse_ciff_file.
ExceptStep(fr) ==
  IF IsSubclass(fr.exc, HandledClass)
  THEN [fr EXCEPT !.new_ciff = ExceptHandler(@), !.exc = "none", !.pc = "return"]
  ELSE [fr EXCEPT !.pc = "uncaught"]

\* ------------------------------------------------------------- actions
\* lines 184-185: parse_ciff_file(file_path) is called; file_path names a file
\* with the bytes f, or (ok false) a file that cannot be opened.
Enter(i, f, ok) ==
  /\ files' = [files EXCEPT ![i] = f]
  /\ openable' = [openable EXCEPT ![i] = ok]
  /\ frame' = [frame EXCEPT ![i] = [@ EXCEPT !.new_ciff = CIFF__init__(heap).obj,
                                             !.bytes_read = 0,
                                             !.pc = "open"]]
  /\ heap' = CIFF__init__(heap).heap
  /\ UNCHANGED results

\* One call after the other: the first call is given any file of the corpus;
\* the second starts when the first has returned and is given the same file,
\* a prefix of it or a one-byte extension.
Call(i) ==
  /\ frame[i].pc = "call"
  /\ i = 2 => frame[1].pc = "done"
  /\ \E ok \in BOOLEAN :
       \E f \in IF ~ok THEN {<< >>}
                ELSE IF i = 1 THEN Corpus
                ELSE Prefixes(files[1]) \cup Extensions(files[1]) :
         Enter(i, f, ok)

\* Side by side: the second call starts at any time after the first has
\* started, on a file with the same bytes.
ConcCall(i) ==
  \/ /\ i = 1
     /\ frame[i].pc = "call"
     /\ \E ok \in BOOLEAN : \E f \in IF ok THEN ConcCorpus ELSE {<< >>} :
          Enter(i, f, ok)
  \/ /\ i = 2
     /\ frame[i].pc = "call"
     /\ frame[1].pc # "call"
     /\ Enter(i, files[1], openable[1])

Open(i) ==
  /\ frame[i].pc = "open"
  /\ frame' = [frame EXCEPT ![i] = OpenStep(@, openable[i])]
  /\ UNCHANGED <<files, openable, heap, results>>

Magic(i) ==
  /\ frame[i].pc = "magic"
  /\ frame' = [frame EXCEPT ![i] = MagicStep(@, files[i])]
  /\ UNCHANGED <<files, openable, heap, results>>

HeaderSize(i) ==
  /\ frame[i].pc = "header_size"
  /\ frame' = [frame EXCEPT ![i] = HeaderSizeStep(@, files[i])]
  /\ UNCHANGED <<files, openable, heap, results>>

ContentSize(i) ==
  /\ frame[i].pc = "content_size"
  /\ frame' = [frame EXCEPT ![i] = ContentSizeStep(@, files[i])]
  /\ UNCHANGED <<files, openable, heap, results>>

Width(i) ==
  /\ frame[i].pc = "width"
  /\ frame' = [frame EXCEPT ![i] = WidthStep(@, files[i])]
  /\ UNCHANGED <<files, openable, heap, results>>

Height(i) ==
  /\ frame[i].pc = "height"
  /\ frame' = [frame EXCEPT ![i] = HeightStep(@, files[i])]
  /\ UNCHANGED <<files, openable, heap, results>>

DimensionCheck(i) ==
  /\ frame[i].pc = "dimension_check"
  /\ frame' = [frame EXCEPT ![i] = DimensionCheckStep(@)]
  /\ UNCHANGED <<files, openable, heap, results>>

Caption(i) ==
  /\ frame[i].pc = "caption"
  /\ frame' = [frame EXCEPT ![i] = CaptionStep(@, files[i], heap)]
  /\ heap' = IF CaptionEnds(frame[i], files[i]) THEN Append(heap, << >>) ELSE heap
  /\ UNCHANGED <<files, openable, results>>

Tags(i) ==
  /\ frame[i].pc = "tags"
  /\ TagLoopCond(frame[i].bytes_read, frame[i].new_ciff)
  /\ frame' = [frame EXCEPT ![i] = TagsStep(@, files[i])]
  /\ heap' = [heap EXCEPT ![frame[i].tags] = @ \o TagClosed(frame[i], files[i])]
  /\ UNCHANGED <<files, openable, results>>

TagsDone(i) ==
  /\ frame[i].pc = "tags"
  /\ ~TagLoopCond(frame[i].bytes_read, frame[i].new_ciff)
  /\ frame' = [frame EXCEPT ![i] = TagsDoneStep(@, heap)]
  /\ UNCHANGED <<files, openable, heap, results>>

Pixels(i) ==
  /\ frame[i].pc = "pixels"
  /\ PixelLoopCond(frame[i].bytes_read, frame[i].new_ciff)
  /\ frame' = [frame EXCEPT ![i] = PixelsStep(@, files[i])]
  /\ heap' = [heap EXCEPT ![frame[i].new_ciff.pixels] =
                            @ \o PixelRead(frame[i], files[i])]
  /\ UNCHANGED <<files, openable, results>>

TrailingCheck(i) ==
  /\ frame[i].pc = "pixels"
  /\ ~PixelLoopCond(frame[i].bytes_read, frame[i].new_ciff)
  /\ frame' = [frame EXCEPT ![i] = TrailingCheckStep(@, files[i])]
  /\ UNCHANGED <<files, openable, heap, results>>

WithExit(i) ==
  /\ frame[i].pc = "with_exit"
  /\ frame' = [frame EXCEPT ![i] = WithExitStep(@)]
  /\ UNCHANGED <<files, openable, heap, results>>

Except(i) ==
  /\ frame[i].pc = "except"
  /\ frame' = [frame EXCEPT ![i] = ExceptStep(@)]
  /\ UNCHANGED <<files, openable, heap, results>>

\* line 298: the caller receives the object; the locals of the call are gone
Return(i) ==
  /\ frame[i].pc = "return"
  /\ results' = [results EXCEPT ![i] = View(frame[i].new_ciff, heap)]
  /\ frame' = [frame EXCEPT ![i] = NoFrame("done")]
  /\ UNCHANGED <<files, openable, heap>>

Step(i) ==
  \/ Open(i)
  \/ Magic(i)
  \/ HeaderSize(i)
  \/ ContentSize(i)
  \/ Width(i)
  \/ Height(i)
  \/ DimensionCheck(i)
  \/ Caption(i)
  \/ Tags(i)
  \/ TagsDone(i)
  \/ Pixels(i)
  \/ TrailingCheck(i)
  \/ WithExit(i)
  \/ Except(i)
  \/ Return(i)

Next == \E i \in Calls : Call(i) \/ Step(i)

Spec == Init /\ [][Next]_vars

\* A call is a sequential program: it takes its next step as long as it has one.
FairSpec == Spec /\ WF_vars(Next)

ConcNext == \E i \in Calls : ConcCall(i) \/ Step(i)

ConcSpec == Init /\ [][ConcNext]_vars


\* ===================================================================
\* Properties
\* ===================================================================

\* the object of call i as the caller sees it when the call returns
Returned(i) ==
  IF frame[i].pc = "done" THEN results[i] ELSE View(frame[i].new_ciff, heap)

AtReturn(i) == frame[i].pc = "return"

\* C1: no exception leaves parse_ciff_file, whatever the source (unopenable
\* and empty ones included): the call never ends uncaught, every exception
\* raised inside the with block reaches the except clause, and the except
\* clause leads to the return of an object whose is_valid is false.
C1_NoExceptionEscapes ==
  [][\A i \in Calls :
       /\ frame'[i].pc # "uncaught"
       /\ (frame[i].pc = "with_exit" /\ frame[i].exc # "none"
             => frame'[i].pc \in {"with_exit", "except"})
       /\ (frame[i].pc = "except" /\ frame'[i].pc # "except"
             => frame'[i].pc = "return" /\ ~frame'[i].new_ciff.is_valid)]_vars

C1_Witness ==
  \E i \in Calls : AtReturn(i) /\ ~openable[i] /\ ~frame[i].new_ciff.is_valid

\* C2: truncated-file property: when the first call returned a valid object
\* and the second call decodes a proper prefix of the same bytes (cut at any
\* offset from 0 to length - 1), the second call returns is_valid false.
C2_TruncatedFileInvalid ==
  AtReturn(2) /\ openable[1] /\ openable[2] /\ results[1].is_valid
              /\ IsProperPrefix(files[2], files[1])
    => ~frame[2].new_ciff.is_valid

C2_Witness ==
  /\ AtReturn(2) /\ openable[1] /\ openable[2] /\ results[1].is_valid
  /\ IsProperPrefix(files[2], files[1])
  /\ Len(files[2]) > 36
  /\ ~frame[2].new_ciff.is_valid

\* C3: extra-byte property: when the first call returned a valid object and
\* the second call decodes the same bytes with one byte appended, the second
\* call returns is_valid false.
C3_ExtraByteInvalid ==
  AtReturn(2) /\ openable[1] /\ openable[2] /\ results[1].is_valid
              /\ IsOneByteExtension(files[2], files[1])
    => ~frame[2].new_ciff.is_valid

C3_Witness ==
  /\ AtReturn(2) /\ openable[1] /\ openable[2] /\ results[1].is_valid
  /\ IsOneByteExtension(files[2], files[1])
  /\ frame[2].pos = Len(files[2])
  /\ ~frame[2].new_ciff.is_valid

\* C4: a returned object with is_valid true has
\* content_size = width * height * 3 and len(pixels) = width * height.
C4_ValidSizesAgree ==
  \A i \in Calls :
    AtReturn(i) /\ frame[i].new_ciff.is_valid =>
      LET obj == Returned(i) IN
        /\ obj.content_size = IntMul(IntMul(obj.width, obj.height), PyInt(3))
        /\ PyInt(Len(obj.pixels)) = IntMul(obj.width, obj.height)

C4_Witness ==
  \E i \in Calls :
    /\ AtReturn(i) /\ frame[i].new_ciff.is_valid
    /\ Len(Returned(i).pixels) = 2
    /\ Returned(i).content_size = PyInt(6)

\* C5: when a valid object is returned, the bytes consumed from the source
\* are exactly header_size + content_size of them, the counter bytes_read
\* agrees, and no byte of the source is left.
C5_ValidConsumesExactly ==
  \A i \in Calls :
    AtReturn(i) /\ frame[i].new_ciff.is_valid =>
      /\ PyInt(frame[i].pos) =
           IntAdd(frame[i].new_ciff.header_size, frame[i].new_ciff.content_size)
      /\ frame[i].bytes_read = frame[i].pos
      /\ frame[i].pos = Len(files[i])

C5_Witness ==
  \E i \in Calls :
    /\ AtReturn(i) /\ frame[i].new_ciff.is_valid
    /\ IntLess(frame[i].new_ciff.header_size, PyInt(frame[i].pos))
    /\ frame[i].pos = Len(files[i])

\* The wire layout, read off the bytes without the decoder.  The four size
\* fields are taken as numbers below 256 (their seven upper bytes are zero).
ByteField(f, off) == \A k \in 2..FieldLen : f[off + k] = 0
FieldValue(f, off) == f[off + 1]

FollowsWireLayout(f) ==
  /\ Len(f) >= 38
  /\ SubSeq(f, 1, 4) = <<67, 73, 70, 70>>
  /\ \A off \in {4, 12, 20, 28} : ByteField(f, off)
  /\ FieldValue(f, 4) >= 38
  /\ FieldValue(f, 12) = FieldValue(f, 20) * FieldValue(f, 28) * 3
  /\ Len(f) = FieldValue(f, 4) + FieldValue(f, 12)
  /\ \E n \in 37..FieldValue(f, 4) :
       /\ f[n] = 10
       /\ \A m \in 37..FieldValue(f, 4) : f[m] < 128 /\ (m # n => f[m] # 10)
       /\ n = FieldValue(f, 4) \/ f[FieldValue(f, 4)] = 0

\* the null-terminated pieces of b, in order, each with its null
RECURSIVE SplitTags(_)
SplitTags(b) ==
  IF b = << >> THEN << >>
  ELSE LET k == CHOOSE k \in 1..Len(b) :
                  b[k] = 0 /\ \A m \in 1..(k - 1) : b[m] # 0
       IN  <<SubSeq(b, 1, k)>> \o SplitTags(SubSeq(b, k + 1, Len(b)))

ExpectedRecord(f) ==
  LET hs == FieldValue(f, 4)
      cs == FieldValue(f, 12)
      n  == CHOOSE n \in 37..hs : f[n] = 10
  IN  [magic |-> <<67, 73, 70, 70>>,
       header_size |-> PyInt(hs),
       content_size |-> PyInt(cs),
       width |-> PyInt(FieldValue(f, 20)),
       height |-> PyInt(FieldValue(f, 28)),
       caption |-> SubSeq(f, 37, n - 1),
       tags |-> SplitTags(SubSeq(f, n + 1, hs)),
       pixels |-> [k \in 1..(cs \div 3) |->
                     <<f[hs + 3 * k - 2], f[hs + 3 * k - 1], f[hs + 3 * k]>>],
       is_valid |-> TRUE]

\* C6: every byte sequence that follows the wire layout is accepted, and the
\* returned object has the encoded integers as header fields, the bytes before
\* the newline as caption, the tags in stream order and the 3-byte groups of
\* the content as pixels, in stream order.
C6_WireLayoutAccepted ==
  \A i \in Calls :
    AtReturn(i) /\ openable[i] /\ FollowsWireLayout(files[i])
      => Returned(i) = ExpectedRecord(files[i])

C6_Witness ==
  \E i \in Calls :
    /\ AtReturn(i) /\ openable[i] /\ FollowsWireLayout(files[i])
    /\ Returned(i).caption = <<65>>
    /\ Returned(i).tags = << <<65, 0>> >>
    /\ Len(Returned(i).pixels) = 2
    /\ Returned(i).pixels[1] # Returned(i).pixels[2]

\* C7: in the caption, tag and pixel loops the read position never exceeds
\* the declared header_size + content_size plus the one probed byte.
C7_ReadsWithinDeclaredSizes ==
  \A i \in Calls :
    frame[i].pc \in {"caption", "tags", "pixels"} =>
      ~IntLess(IntAdd(IntAdd(frame[i].new_ciff.header_size,
                             frame[i].new_ciff.content_size), PyInt(1)),
               PyInt(frame[i].pos))

\* C8: two decodes of the same bytes, one after the other or side by side,
\* return objects with the same field values and the same is_valid.
C8_SameBytesSameRecord ==
  \A i, j \in Calls :
    /\ frame[i].pc \in {"return", "done"}
    /\ frame[j].pc \in {"return", "done"}
    /\ files[i] = files[j] /\ openable[i] = openable[j]
    => Returned(i) = Returned(j)

C8_Witness ==
  /\ AtReturn(1) /\ AtReturn(2)
  /\ files[1] = files[2] /\ openable[1] /\ openable[2]
  /\ Returned(1).is_valid
  /\ Len(Returned(2).pixels) = 2

\* the first four bytes of f are missing or are not "CIFF"
BadMagic(f) == Len(f) < 4 \/ SubSeq(f, 1, 4) # <<67, 73, 70, 70>>

\* C9: when fewer than 4 bytes are available or the 4 bytes are not CIFF
\* (bytes that are not ASCII included), no byte beyond the first 4 is ever
\* consumed and the returned object has is_valid false.
C9_BadMagicStopsAtMagic ==
  \A i \in Calls :
    frame[i].pc \notin {"call", "done"} /\ openable[i] /\ BadMagic(files[i]) =>
      /\ frame[i].pos <= 4
      /\ AtReturn(i) => ~frame[i].new_ciff.is_valid

C9_Witness ==
  \E i \in Calls :
    /\ AtReturn(i) /\ openable[i] /\ BadMagic(files[i])
    /\ Len(files[i]) > 4
    /\ frame[i].pos = 4
    /\ ~frame[i].new_ciff.is_valid

\* C10: every call returns: the caption loop, the tag loop (also when
\* bytes_read is already beyond header_size on entry) and the pixel loop end.
C10_EveryCallReturns == <>(\A i \in Calls : frame[i].pc = "done")

\* the tag loop was entered with bytes_read beyond header_size and has ended
\* by a short read at the end of the file
C10_Witness ==
  \E i \in Calls :
    /\ frame[i].pc = "with_exit" /\ frame[i].exc = "Exception"
    /\ frame[i].tags # 0 /\ frame[i].new_ciff.tags # frame[i].tags
    /\ IntLess(frame[i].new_ciff.header_size, PyInt(frame[i].bytes_read))
    /\ frame[i].pos = Len(files[i])

\* C11: the file is released on every exit path: a call that opened its file
\* arrives at its return with the file closed, closed exactly once (a call
\* whose open failed has nothing to close); the file is read only while it
\* is open, and a closed file is never open again.
C11_SourceReleasedOnce ==
  [][\A i \in Calls :
       /\ (frame'[i].pc = "return" =>
             IF openable'[i]
             THEN frame'[i].handle = "closed" /\ frame'[i].closes = 1
             ELSE frame'[i].handle = "none" /\ frame'[i].closes = 0)
       /\ (frame'[i].pos > frame[i].pos =>
             frame[i].handle = "open" /\ frame[i].closes = 0)
       /\ (frame[i].handle = "closed" => frame'[i].handle # "open")
       /\ frame'[i].closes <= 1]_vars

\* a call that failed in the tag loop is at its return with the file closed
C11_Witness ==
  \E i \in Calls :
    /\ AtReturn(i) /\ openable[i]
    /\ frame[i].handle = "closed" /\ frame[i].closes = 1
    /\ frame[i].tags # 0 /\ frame[i].new_ciff.tags # frame[i].tags
    /\ ~frame[i].new_ciff.is_valid

\* The decoder states in their order, as the places of a call inside the with
\* block.  The trailing check is the step that leaves "pixels" when the
\* condition of the pixel loop is false: it probes one byte and ends the block.
DecoderStates ==
  <<"magic", "header_size", "content_size", "width", "height",
    "dimension_check", "caption", "tags", "pixels">>

InDecoder(pc) == \E k \in DOMAIN DecoderStates : DecoderStates[k] = pc

Rank(pc) == CHOOSE k \in DOMAIN DecoderStates : DecoderStates[k] = pc

\* C12: the states are passed in their order: decoding starts in MAGIC, a
\* step stays in its state (the three loops only) or enters the next one,
\* the block is left without an exception only by the trailing check, at the
\* end of the file; once an exception is raised or the block is left, no
\* byte is read and no decoder state is entered.
C12_StatesInOrder ==
  [][\A i \in Calls :
       LET a == frame[i]
           b == frame'[i]
       IN  /\ (InDecoder(b.pc) /\ ~InDecoder(a.pc) =>
                 a.pc = "open" /\ b.pc = "magic")
           /\ (InDecoder(a.pc) /\ InDecoder(b.pc) =>
                 \/ Rank(b.pc) = Rank(a.pc) + 1
                 \/ b.pc = a.pc /\ a.pc \in {"caption", "tags", "pixels"})
           /\ (InDecoder(a.pc) /\ ~InDecoder(b.pc) =>
                 /\ b.pc = "with_exit"
                 /\ b.exc = "none" =>
                      /\ a.pc = "pixels"
                      /\ ~PixelLoopCond(a.bytes_read, a.new_ciff)
                      /\ b.pos = Len(files[i]))
           /\ (a.exc # "none" => b.pos = a.pos /\ ~InDecoder(b.pc))
           /\ (a.pc \in {"with_exit", "except", "return"} =>
                 ~InDecoder(b.pc) /\ (b.pos = a.pos \/ b.pc = "done"))]_vars

\* a call has passed every state, the three loops with iterations, and left
\* the block after the trailing check
C12_Witness ==
  \E i \in Calls :
    /\ frame[i].pc = "with_exit" /\ frame[i].exc = "none"
    /\ frame[i].caption # << >>
    /\ heap[frame[i].new_ciff.tags] # << >>
    /\ heap[frame[i].new_ciff.pixels] # << >>

\* C13: the validity flag of the object of a call is true when the object is
\* made, and once it is false it is true in no later step of the call nor in
\* the object the caller receives; a call in which an exception was raised
\* arrives at its return with the flag false.
C13_ValidityFlagMonotone ==
  [][\A i \in Calls :
       LET a == frame[i]
           b == frame'[i]
       IN  /\ (a.pc = "call" /\ b.pc # "call" => b.new_ciff.is_valid)
           /\ (a.pc \notin {"call", "done"} /\ ~a.new_ciff.is_valid =>
                 IF b.pc = "done" THEN ~results'[i].is_valid
                 ELSE ~b.new_ciff.is_valid)
           /\ (a.exc # "none" /\ b.pc = "return" => ~b.new_ciff.is_valid)
           /\ (a.pc = "return" /\ b.pc = "done" =>
                 results'[i].is_valid = a.new_ciff.is_valid)]_vars

\* the flag was cleared at the magic mismatch, before the exception was
\* raised, and the except clause has run
C13_Witness ==
  \E i \in Calls :
    /\ AtReturn(i) /\ openable[i]
    /\ Len(files[i]) >= 4 /\ IsAscii(SubSeq(files[i], 1, 4))
    /\ frame[i].new_ciff.magic # CIFF_MAGIC
    /\ ~frame[i].new_ciff.is_valid

\* The header of a file, read off its bytes without the decoder.
FieldAt(f, off) == unpack_q(SubSeq(f, off + 1, off + FieldLen))

\* f has the magic and its four size fields, each in its range
SizesInRange(f) ==
  /\ Len(f) >= 36
  /\ SubSeq(f, 1, 4) = <<67, 73, 70, 70>>
  /\ ~IntLess(FieldAt(f, 4), PyInt(38))
  /\ \A off \in {12, 20, 28} : ~IntLess(FieldAt(f, off), PyInt(0))

\* the four size fields are in range and the sizes agree
HeaderPasses(f) ==
  /\ SizesInRange(f)
  /\ FieldAt(f, 12) = IntMul(IntMul(FieldAt(f, 20), FieldAt(f, 28)), PyInt(3))

\* the declared header size n lies within the file
DeclaresHeader(f, n) == n \in 38..Len(f) /\ PyInt(n) = FieldAt(f, 4)

\* the newline that ends the caption is the byte at offset k - 1
CaptionNewlineAt(f, k) ==
  k \in 37..Len(f) /\ f[k] = NL /\ \A m \in 37..(k - 1) : f[m] # NL

\* C14: the pixel loop is entered only when bytes_read equals header_size,
\* every byte up to there has been read, and the last of them is the newline
\* of the caption or the null of a tag.  A file whose byte at offset
\* header_size - 1 is a tag byte other than null, and a file whose caption
\* newline lies at or beyond offset header_size, are returned invalid.
C14_PixelsEnteredAtHeaderEnd ==
  [][\A i \in Calls :
       LET a == frame[i]
           b == frame'[i]
           f == files[i]
       IN  /\ (a.pc = "tags" /\ b.pc = "pixels" =>
                 /\ PyInt(b.bytes_read) = b.new_ciff.header_size
                 /\ b.pos = b.bytes_read
                 /\ f[b.pos] \in {NL, NUL}
                 /\ f[b.pos] = NL => CaptionNewlineAt(f, b.pos))
           /\ (b.pc = "return" /\ openable[i] /\ HeaderPasses(f) =>
                 \A n \in 38..Len(f), k \in 37..Len(f) :
                   /\ DeclaresHeader(f, n) /\ CaptionNewlineAt(f, k)
                   /\ \/ k < n /\ f[n] # NUL
                      \/ k > n
                   => ~b.new_ciff.is_valid)]_vars

\* the newline of the caption is the byte at offset header_size: the tag
\* loop started beyond the header and the call is returned invalid
C14_Witness ==
  \E i \in Calls :
    /\ AtReturn(i) /\ openable[i] /\ HeaderPasses(files[i])
    /\ \E n \in 38..Len(files[i]) :
         DeclaresHeader(files[i], n) /\ CaptionNewlineAt(files[i], n + 1)
    /\ frame[i].tags # 0
    /\ ~frame[i].new_ciff.is_valid

\* t is a tag as it is to be stored: its last byte is the null, and no byte
\* before that is a null or a newline
WellFormedTag(t) ==
  /\ t # << >>
  /\ t[Len(t)] = NUL
  /\ \A k \in 1..(Len(t) - 1) : t[k] # NUL /\ t[k] # NL

\* C15: every tag in the tags list of the object of a call, and of the
\* object the caller receives, ends with its null and holds no newline and
\* no other null; a newline read by the tag loop raises at that byte, and
\* the tags read so far are not stored.
C15_StoredTagsWellFormed ==
  [][\A i \in Calls :
       LET a == frame[i]
           b == frame'[i]
           f == files[i]
       IN  /\ (b.pc \notin {"call", "done"} =>
                 \A k \in DOMAIN heap'[b.new_ciff.tags] :
                   WellFormedTag(heap'[b.new_ciff.tags][k]))
           /\ (b.pc = "done" =>
                 \A k \in DOMAIN results'[i].tags :
                   WellFormedTag(results'[i].tags[k]))
           /\ (/\ a.pc = "tags" /\ b # a
               /\ TagLoopCond(a.bytes_read, a.new_ciff)
               /\ a.pos < Len(f) /\ f[a.pos + 1] = NL
               => /\ b.pc = "with_exit" /\ b.exc = "Exception"
                  /\ b.pos = a.pos + 1
                  /\ heap'[b.new_ciff.tags] = << >>)]_vars

\* a valid object with two tags is returned
C15_Witness ==
  \E i \in Calls :
    /\ AtReturn(i) /\ frame[i].new_ciff.is_valid
    /\ Len(Returned(i).tags) = 2
    /\ \A k \in 1..2 : WellFormedTag(Returned(i).tags[k])

\* C16: a file whose size fields are in range and whose content_size is not
\* width * height * 3 fails at the dimension check: the object is returned
\* invalid, 36 bytes have been read and counted, and its caption, tags and
\* pixels are empty.
C16_DimensionMismatchFailsAt36 ==
  \A i \in Calls :
    /\ AtReturn(i) /\ openable[i] /\ SizesInRange(files[i])
    /\ FieldAt(files[i], 12) #
         IntMul(IntMul(FieldAt(files[i], 20), FieldAt(files[i], 28)), PyInt(3))
    => /\ ~frame[i].new_ciff.is_valid
       /\ frame[i].pos = 36 /\ frame[i].bytes_read = 36
       /\ Returned(i).caption = << >>
       /\ Returned(i).tags = << >>
       /\ Returned(i).pixels = << >>

\* the file with content_size 5, width 2 and height 1 has been decoded
C16_Witness ==
  \E i \in Calls :
    /\ AtReturn(i) /\ openable[i] /\ SizesInRange(files[i])
    /\ FieldAt(files[i], 12) = PyInt(5)
    /\ FieldAt(files[i], 20) = PyInt(2) /\ FieldAt(files[i], 28) = PyInt(1)
    /\ Len(files[i]) > 36 /\ frame[i].pos = 36
    /\ ~frame[i].new_ciff.is_valid

\* 2**63 - 1, the largest value of a size field
MaxInt64 ==
  [neg |-> FALSE, mag |-> [i \in 1..FieldLen |-> IF i = FieldLen THEN 127 ELSE 255]]

\* width * height * 3 of the file f, as a number, is beyond the 64-bit values
ProductOverflows(f) ==
  IntLess(MaxInt64,
          MkInt(FALSE, MulMag[MulMag[FieldAt(f, 20).mag, FieldAt(f, 28).mag], <<3>>]))

\* C17: a file whose size fields are in range and whose product
\* width * height * 3 is beyond the 64-bit values is returned invalid, also
\* when the low 64 bits of the product are the declared content_size.
C17_ProductNotWrapped ==
  \A i \in Calls :
    AtReturn(i) /\ openable[i] /\ SizesInRange(files[i])
                /\ ProductOverflows(files[i])
      => ~frame[i].new_ciff.is_valid

\* width and height are 2**32, content_size is 0 as the low 64 bits of the
\* product are, and the file ends where its header ends
C17_Witness ==
  \E i \in Calls :
    /\ AtReturn(i) /\ openable[i] /\ SizesInRange(files[i])
    /\ ProductOverflows(files[i])
    /\ FieldAt(files[i], 12) = PyInt(0)
    /\ PyInt(Len(files[i])) = FieldAt(files[i], 4)
    /\ ~frame[i].new_ciff.is_valid

\* f has the magic and the size fields up to offset off, each in its range
\* (header_size at least 38, the others not negative)
FieldsInRangeBefore(f, off) ==
  /\ Len(f) >= off + FieldLen
  /\ SubSeq(f, 1, 4) = <<67, 73, 70, 70>>
  /\ off > 4 => ~IntLess(FieldAt(f, 4), PyInt(38))
  /\ \A o \in {12, 20, 28} : o < off => ~IntLess(FieldAt(f, o), PyInt(0))

\* C18: a header_size below 38 (the patterns with the top bit set, which are
\* negative, included) and a negative content_size, width or height fail the
\* decode at the field: the object is returned invalid and the read position
\* is the end of that field, so nothing after it was read.
C18_SizeFieldRangeChecks ==
  \A i \in Calls :
    AtReturn(i) /\ openable[i] =>
      /\ FieldsInRangeBefore(files[i], 4) /\ IntLess(FieldAt(files[i], 4), PyInt(38))
           => ~frame[i].new_ciff.is_valid /\ frame[i].pos = 12
      /\ \A off \in {12, 20, 28} :
           FieldsInRangeBefore(files[i], off) /\ IntLess(FieldAt(files[i], off), PyInt(0))
             => ~frame[i].new_ciff.is_valid /\ frame[i].pos = off + FieldLen

\* a file whose content_size is the pattern with only the top bit set
C18_Witness ==
  \E i \in Calls :
    /\ AtReturn(i) /\ openable[i]
    /\ FieldsInRangeBefore(files[i], 12)
    /\ SubSeq(files[i], 13, 20) = PatTopBit
    /\ Len(files[i]) > 20 /\ frame[i].pos = 20
    /\ ~frame[i].new_ciff.is_valid

\* C19: the object of a call is made empty: right after its construction its
\* magic is empty, its four sizes are 0, its caption, tags and pixels are
\* empty and it is valid; and a call that fails before the magic is stored
\* (fewer than 4 bytes, or 4 bytes that are not ASCII) returns an object whose
\* magic is empty.
C19_RecordCreatedEmpty ==
  \A i \in Calls :
    /\ frame[i].pc = "open" =>
         Returned(i) = [magic |-> << >>, header_size |-> PyInt(0),
                        content_size |-> PyInt(0), width |-> PyInt(0),
                        height |-> PyInt(0), caption |-> << >>, tags |-> << >>,
                        pixels |-> << >>, is_valid |-> TRUE]
    /\ /\ AtReturn(i) /\ openable[i]
       /\ Len(files[i]) < 4 \/ ~IsAscii(SubSeq(files[i], 1, 4))
       => Returned(i).magic = << >>

\* C20: a byte of 128 or more read by the caption loop or the tag loop raises
\* at that byte; nothing is read after it and the object is returned
\* invalid; the caption and the tags of an object returned valid hold only
\* bytes below 128.
C20_NonAsciiByteFails ==
  [][\A i \in Calls :
       LET a == frame[i]
           b == frame'[i]
           f == files[i]
       IN  /\ (/\ b # a
               /\ \/ a.pc = "caption"
                  \/ a.pc = "tags" /\ TagLoopCond(a.bytes_read, a.new_ciff)
               /\ a.pos < Len(f) /\ f[a.pos + 1] >= 128
               => /\ b.pc = "with_exit" /\ b.exc = "UnicodeDecodeError"
                  /\ b.pos = a.pos + 1)
           /\ (a.exc = "UnicodeDecodeError" /\ b # a =>
                 /\ b.pos = a.pos
                 /\ b.pc \in {"except", "return"}
                 /\ b.pc = "return" => ~b.new_ciff.is_valid)
           /\ (b.pc = "return" /\ b.new_ciff.is_valid =>
                 /\ \A k \in DOMAIN b.new_ciff.caption : b.new_ciff.caption[k] < 128
                 /\ \A t \in DOMAIN heap'[b.new_ciff.tags] :
                      \A k \in DOMAIN heap'[b.new_ciff.tags][t] :
                        heap'[b.new_ciff.tags][t][k] < 128)]_vars

\* the tag loop has read a byte that is not ASCII, after a tag was closed
C20_Witness ==
  \E i \in Calls :
    /\ frame[i].pc = "with_exit" /\ frame[i].exc = "UnicodeDecodeError"
    /\ frame[i].tags # 0 /\ heap[frame[i].tags] # << >>
    /\ files[i][frame[i].pos] >= 128
    /\ frame[i].pos < Len(files[i])

====
